---- MODULE Spec2Model ----
(***************************************************************************)
(* The OASIC VLIW scheduler (oasic_vliw_scheduler.py, example.py).         *)
(*                                                                         *)
(* OasicScheduler.schedule() creates 0/1 decision variables x[(j,n,k)],    *)
(* adds assignment, resource and dependence constraints to an ILP model,   *)
(* calls the solver and prints the variables whose value is 1.             *)
(*                                                                         *)
(* A sum of the source is modelled as the set of its terms, each term a    *)
(* pair <<occurrence, key>>: the occurrence is the position of the         *)
(* generator that produced the term, so that a variable summed twice       *)
(* counts twice, and key = <<j, n, k>> is the index of the variable.       *)
(***************************************************************************)
EXTENDS Integers, Sequences, FiniteSets, TLC

VARIABLES
    scheduler,    \* which object of example.py runs ("bounded": a drawn input)
    self,         \* the fields OasicScheduler.__init__ stores
    pc,           \* position inside schedule()
    x,            \* keys of the dict of LpVariables
    oasic_model,  \* the constraints added to the LpProblem, by the loop adding them
    status,       \* status of the LpProblem
    value,        \* varValue of the variables the solver has set (None elsewhere)
    printed,      \* the variables printed by the first report loop, in order
    grid,         \* the occupancy grid printed by the second report loop
    error,        \* the exception that left schedule(), <<>> if none
    ret           \* what schedule() returned, "" while it has not returned

vars == <<scheduler, self, pc, x, oasic_model, status, value, printed, grid, error, ret>>

----------------------------------------------------------------------------
(* Bounds of the drawn inputs *)

MaxM == 3     \* horizon of the drawn programs
MaxQ == 2     \* largest latency of the drawn microarchitectures
MaxR == 1     \* largest capacity of the drawn microarchitectures

----------------------------------------------------------------------------
(* Python helpers *)

\* range(a, b)
Range(a, b) == a .. (b - 1)

\* the elements of a list
ToSet(l) == {l[t] : t \in DOMAIN l}

\* [r for rr in l for r in rr]
RECURSIVE Flatten(_)
Flatten(l) == IF l = <<>> THEN <<>> ELSE Head(l) \o Flatten(Tail(l))

\* max(list)
Max(S) == CHOOSE m \in S : \A o \in S : o <= m

----------------------------------------------------------------------------
(* The inputs of example.py *)

ExampleProgram ==
    [ n_i      |-> <<"i", "j", "k">>,
      E_d_true |-> << <<"i", "j", "var_a">>, <<"j", "k", "var_b">>, <<"i", "k", "var_c">> >>,
      M_steps  |-> 4,
      N        |-> [ins \in {"i", "j", "k"} |-> Range(1, 5)] ]

\* the getters ignore the program they are given
ExampleMicroarchitecture(program) ==
    [ n_r_f |-> <<"ALU", "MUL">>,
      R     |-> [k \in {"ALU", "MUL"} |-> 1],
      e_r   |-> << <<"i", "ALU">>, <<"j", "MUL">>, <<"j", "ALU">>, <<"k", "MUL">> >>,
      Q_k_i |-> (<<"ALU", "i">> :> 2) @@ (<<"ALU", "j">> :> 1) @@
                (<<"MUL", "j">> :> 1) @@ (<<"MUL", "k">> :> 1) ]

block ==
    << <<"LD", "a", <<>>>>,
       <<"LD", "b", <<>>>>,
       <<"MUL", "r", <<"a", "b">>>>,
       <<"ADD", "cn", <<"r", "co">>>> >>

interval == 5

\* dict([(outs, (i,outs,ins)) ...]): a later instruction overwrites an earlier one
outputs(prog) ==
    [o \in {prog[t][2] : t \in DOMAIN prog} |->
        prog[Max({t \in DOMAIN prog : prog[t][2] = o})]]

SimpleProgram(prog, intvl) ==
    LET outs == outputs(prog)
        Known(inp) == inp \in DOMAIN outs
        deps(ins) == LET used == SelectSeq(ins[3], Known)
                     IN  [t \in DOMAIN used |-> <<outs[used[t]], ins, used[t]>>]
    IN  [ n_i      |-> prog,
          E_d_true |-> Flatten([t \in DOMAIN prog |-> deps(prog[t])]),
          M_steps  |-> intvl,
          N        |-> [ins \in ToSet(prog) |-> Range(1, intvl)] ]

ins_map == ("LD" :> <<"MM1", "MM0">>) @@ ("ADD" :> <<"AL0", "AL1">>) @@ ("MUL" :> <<"AL0", "AL1">>)

lat_map == ("LD" :> 1) @@ ("ADD" :> 1) @@ ("MUL" :> 1)

get_e_r(prog) ==
    Flatten([t \in DOMAIN prog |->
                [u \in DOMAIN ins_map[prog[t][1]] |-> <<prog[t], ins_map[prog[t][1]][u]>>]])

get_Q_k_i(prog) ==
    LET e == get_e_r(prog)
    IN  [q \in {<<e[t][2], e[t][1]>> : t \in DOMAIN e} |-> lat_map[q[2][1]]]

SimpleMicroarchitecture(prog) ==
    [ n_r_f |-> <<"MM0", "MM1", "AL0", "AL1">>,
      R     |-> [k \in {"AL0", "AL1", "MM0", "MM1"} |-> 1],
      e_r   |-> get_e_r(prog),
      Q_k_i |-> get_Q_k_i(prog) ]

----------------------------------------------------------------------------
(* The drawn inputs: two instructions, two unit kinds *)

\* the windows of the sources, range(1,M+1), range(1,M) and range(2,M+1), and
\* the empty range
Windows == {Range(1, MaxM + 1), Range(1, MaxM), Range(2, MaxM + 1), Range(1, 1)}

BoundedPrograms ==
    { [ n_i |-> <<"i", "j">>, E_d_true |-> E, M_steps |-> MaxM, N |-> w ] :
        E \in {<<>>, << <<"i", "j", "var_a">> >>},
        w \in [{"i", "j"} -> Windows] }

\* eligibility listed instruction by instruction, the latency that of the unit
BoundedMicroarchitecture(program, elig, lat, cap) ==
    LET units == <<"ALU", "MUL">>
        Can(ins) == LET Ok(k) == k \in elig[ins]
                        on == SelectSeq(units, Ok)
                    IN  [u \in DOMAIN on |-> <<ins, on[u]>>]
        e == Flatten([t \in DOMAIN program |-> Can(program[t])])
    IN  [ n_r_f |-> units,
          R     |-> [k \in ToSet(units) |-> cap],
          e_r   |-> e,
          Q_k_i |-> [q \in {<<e[t][2], e[t][1]>> : t \in DOMAIN e} |-> lat[q[1]]] ]

\* the first instruction may run on any set of unit kinds, the others on at
\* most one kind
Eligibilities(prog) ==
    {f \in [ToSet(prog.n_i) -> SUBSET {"ALU", "MUL"}] :
        \A t \in DOMAIN prog.n_i : t > 1 => Cardinality(f[prog.n_i[t]]) <= 1}

\* latencies enter the model through the dependence edges alone: a program
\* without edges is drawn with every latency 1
Latencies(prog) ==
    IF prog.E_d_true = <<>> THEN {[k \in {"ALU", "MUL"} |-> 1]}
    ELSE [{"ALU", "MUL"} -> 1..MaxQ]

\* OasicScheduler.__init__
OasicScheduler(prog, uarch) ==
    [ n_i      |-> prog.n_i,
      E_d_true |-> prog.E_d_true,
      N        |-> prog.N,
      M_steps  |-> prog.M_steps,
      n_r_f    |-> uarch.n_r_f,
      R        |-> uarch.R,
      e_r      |-> uarch.e_r,
      Q_k_i    |-> uarch.Q_k_i ]

----------------------------------------------------------------------------
(* schedule(): the decision variables and the three families of constraints *)

\* (j,k) in self._e_r
Eligible(s, j, k) == \E t \in DOMAIN s.e_r : s.e_r[t] = <<j, k>>

\* the list the LpVariables are made from
decision_variable(s) ==
    {<<j, n, k>> : j \in ToSet(s.n_i), k \in ToSet(s.n_r_f), n \in Range(1, s.M_steps + 1)}

\* sum(x[(j,n,k)] for k in n_r_f for n in N[j] if (j,k) in e_r)
AssignmentSum(s, j) ==
    {<< <<t, n>>, <<j, n, s.n_r_f[t]>> >> :
        t \in {u \in DOMAIN s.n_r_f : Eligible(s, j, s.n_r_f[u])}, n \in s.N[j]}

AssignmentConstraint(s, j) ==
    [terms |-> AssignmentSum(s, j), sense |-> "==", rhs |-> 1, at |-> <<j>>]

\* An empty sum is the integer 0, and 0 == 1 is the Python value False: no
\* LpConstraint is built.
AssignmentIsFalse(s, j) == AssignmentSum(s, j) = {}

\* What oasic_model += False does is up to the pulp release in use: it raises
\* a TypeError, or it takes False for a constant objective and adds nothing.
IaddFalse == {"TypeError", "objective"}

\* sum(x[(j,n,k)] for j in n_i if (j,k) in e_r)
ResourceSum(s, k, n) ==
    {<< <<t, n>>, <<s.n_i[t], n, k>> >> : t \in {u \in DOMAIN s.n_i : Eligible(s, s.n_i[u], k)}}

\* Variant for sensitivity analysis: the bound is off by one.
ResourceConstraint_Loose(s, k, n) ==
    [terms |-> ResourceSum(s, k, n), sense |-> "<=", rhs |-> s.R[k] + 1, at |-> <<k, n>>]

ResourceConstraint(s, k, n) ==
    [terms |-> ResourceSum(s, k, n), sense |-> "<=", rhs |-> s.R[k], at |-> <<k, n>>]

\* An empty sum gives 0 <= R[k], the Python value True, which adds nothing.
ResourceConstraints(s) ==
    {c \in {ResourceConstraint(s, k, n) : k \in ToSet(s.n_r_f), n \in Range(1, s.M_steps + 1)} :
        c.terms # {}}

\* max([Q_k_i[(kk,ii)] for (kk,ii) in Q_k_i.keys() if ii == i])
L_max(s, i) == Max({s.Q_k_i[q] : q \in {p \in DOMAIN s.Q_k_i : p[2] = i}})

\* the pairs (nn_i, nn_j) a constraint is generated for
DependencePairs(s, i, j) ==
    {p \in s.N[i] \X s.N[j] : p[2] <= p[1] + L_max(s, i)}

\* Variant for sensitivity analysis: the latency test is strict, so the last
\* busy cycle is let through.
StillBusy_Strict(s, i, k, nn_i, nn_j) ==
    /\ <<k, i>> \in DOMAIN s.Q_k_i
    /\ s.Q_k_i[<<k, i>>] > nn_j - nn_i + 1

\* Variant for sensitivity analysis: the latency test counts one cycle too many.
StillBusy_Long(s, i, k, nn_i, nn_j) ==
    /\ <<k, i>> \in DOMAIN s.Q_k_i
    /\ s.Q_k_i[<<k, i>>] >= nn_j - nn_i

\* the units of i still busy at nn_j when i is issued at nn_i
StillBusy(s, i, k, nn_i, nn_j) ==
    /\ <<k, i>> \in DOMAIN s.Q_k_i
    /\ s.Q_k_i[<<k, i>>] >= nn_j - nn_i + 1

\* sum(x[i,nn_i,k] for k in [kk for (ii,kk) in e_r if ii == i] if ...)
ProducerSum(s, i, nn_i, nn_j) ==
    {<< <<1, t>>, <<i, nn_i, s.e_r[t][2]>> >> :
        t \in {u \in DOMAIN s.e_r :
                 s.e_r[u][1] = i /\ StillBusy(s, i, s.e_r[u][2], nn_i, nn_j)}}

\* sum(x[j,nn_j,k] for k in [kk for (ii,kk) in e_r if ii == j])
ConsumerSum(s, j, nn_j) ==
    {<< <<2, t>>, <<j, nn_j, s.e_r[t][2]>> >> :
        t \in {u \in DOMAIN s.e_r : s.e_r[u][1] = j}}

DependenceConstraint(s, e, p) ==
    [terms |-> ProducerSum(s, s.E_d_true[e][1], p[1], p[2])
                 \cup ConsumerSum(s, s.E_d_true[e][2], p[2]),
     sense |-> "<=", rhs |-> 1, at |-> <<e, p[1], p[2]>>]

\* max() of an empty list raises ValueError; it is evaluated once the two
\* windows of the edge give a pair to test
L_maxRaises(s, e) ==
    /\ s.N[s.E_d_true[e][1]] # {}
    /\ s.N[s.E_d_true[e][2]] # {}
    /\ \A q \in DOMAIN s.Q_k_i : q[2] # s.E_d_true[e][1]

\* the constraints of the edges before edge number stop; an empty sum gives
\* 0 <= 1, the Python value True, which adds nothing
DependenceConstraintsBefore(s, stop) ==
    {c \in UNION {{DependenceConstraint(s, e, p) :
                     p \in DependencePairs(s, s.E_d_true[e][1], s.E_d_true[e][2])} :
                  e \in 1..(stop - 1)} :
        c.terms # {}}

DependenceConstraints(s) == DependenceConstraintsBefore(s, Len(s.E_d_true) + 1)

\* the LpProblem before any constraint is added
EmptyModel == [assignment |-> {}, resource |-> {}, dependence |-> {}]

Groups == {"assignment", "resource", "dependence"}

----------------------------------------------------------------------------
(* The solver *)

VarsOf(c) == {t[2] : t \in c.terms}

\* the variables of the LpProblem: those some constraint mentions
LPVariables(model) == UNION {UNION {VarsOf(c) : c \in model[g]} : g \in Groups}

\* the value of a sum when exactly the variables in ones are 1
Lhs(ones, c) == Cardinality({t \in c.terms : t[2] \in ones})

Satisfies(ones, c) ==
    IF c.sense = "==" THEN Lhs(ones, c) = c.rhs ELSE Lhs(ones, c) <= c.rhs

SatisfiesAll(ones, model) == \A g \in Groups : \A c \in model[g] : Satisfies(ones, c)

\* decision_variable in the order of the list, kept to the problem's variables
VariableOrder(s, model) ==
    LET K == Len(s.n_r_f)
        M == s.M_steps
        all == [m \in 1..(Len(s.n_i) * K * M) |->
                  << s.n_i[((m - 1) \div (K * M)) + 1],
                     ((m - 1) % M) + 1,
                     s.n_r_f[(((m - 1) \div M) % K) + 1] >>]
        lp == LPVariables(model)
        InProblem(v) == v \in lp
    IN  SelectSeq(all, InProblem)

\* Every 0/1 assignment of the problem's variables that satisfies every
\* constraint, as the set of variables at 1. The variables are numbered in
\* order and decided one by one; a partial assignment is dropped as soon as a
\* sum exceeds its bound or a fully decided equality fails.
RECURSIVE BranchAndPrune(_, _, _, _)
BranchAndPrune(cons, last, t, partial) ==
    IF t > last THEN partial
    ELSE LET touched == {c \in cons : \E term \in c.ix : term[2] = t}
             Count(o, c) == Cardinality({term \in c.ix : term[2] \in o})
             Ok(o) == \A c \in touched :
                         /\ Count(o, c) <= c.rhs
                         /\ (c.sense = "==" /\ c.last = t) => Count(o, c) = c.rhs
         IN  BranchAndPrune(cons, last, t + 1,
                            {o \in partial \cup {p \cup {t} : p \in partial} : Ok(o)})

Solutions(s, model) ==
    LET order == VariableOrder(s, model)
        Pos(key) == CHOOSE t \in DOMAIN order : order[t] = key
        Numbered(c) == LET ix == {<<term[1], Pos(term[2])>> : term \in c.terms}
                       IN  [ix |-> ix, sense |-> c.sense, rhs |-> c.rhs,
                            last |-> Max({term[2] : term \in ix})]
        cons == UNION {{Numbered(c) : c \in {d \in model[g] : d.terms # {}}} : g \in Groups}
    IN  IF \A g \in Groups : \A c \in model[g] : c.terms = {} => Satisfies({}, c)
        THEN {{order[t] : t \in o} : o \in BranchAndPrune(cons, Len(order), 1, {{}})}
        ELSE {}

\* what an infeasible solve may leave in the variables: nothing set, or some
\* variable at 1
Leftovers(model) == {{}} \cup {{v} : v \in LPVariables(model)}

\* x[(j,n,k)].value() == 1
IsOne(val, key) == key \in DOMAIN val /\ val[key] = 1

----------------------------------------------------------------------------
(* The report loops *)

\* for n in range(1,M+1): for k in n_r_f: for j in n_i
ReportOrder(s) ==
    LET K == Len(s.n_r_f)
        J == Len(s.n_i)
    IN  [m \in 1..(s.M_steps * K * J) |->
            << s.n_i[((m - 1) % J) + 1],
               ((m - 1) \div (K * J)) + 1,
               s.n_r_f[(((m - 1) \div J) % K) + 1] >>]

Printed(s, keys, val) ==
    LET Shown(key) == key \in keys /\ IsOne(val, key)
    IN  SelectSeq(ReportOrder(s), Shown)

Occupied(s, keys, val) ==
    [n \in Range(1, s.M_steps + 1), k \in ToSet(s.n_r_f) |->
        \E j \in ToSet(s.n_i) : <<j, n, k>> \in keys /\ IsOne(val, <<j, n, k>>)]

----------------------------------------------------------------------------
(* The state machine *)

Init ==
    /\ \/ /\ scheduler = "exscheduler"
          /\ self = OasicScheduler(ExampleProgram, ExampleMicroarchitecture(ExampleProgram.n_i))
       \/ /\ scheduler = "scheduler"
          /\ self = OasicScheduler(SimpleProgram(block, interval), SimpleMicroarchitecture(block))
       \/ /\ scheduler = "bounded"
          /\ \E prog \in BoundedPrograms :
             \E elig \in Eligibilities(prog) :
             \E lat \in Latencies(prog) :
             \E cap \in 0..MaxR :
                self = OasicScheduler(prog, BoundedMicroarchitecture(prog.n_i, elig, lat, cap))
    /\ pc = "variables"
    /\ x = {}
    /\ oasic_model = EmptyModel
    /\ status = "Not Solved"
    /\ value = <<>>
    /\ printed = <<>>
    /\ grid = <<>>
    /\ error = <<>>
    /\ ret = ""

\* lines 64-80
CreateVariables ==
    /\ pc = "variables"
    /\ x' = decision_variable(self)
    /\ pc' = "assignment"
    /\ UNCHANGED <<scheduler, self, oasic_model, status, value, printed, grid, error, ret>>

\* the first position of a list that is in bad, one past its end if none is
FirstOf(bad, l) == IF bad = {} THEN Len(l) + 1 ELSE CHOOSE t \in bad : \A u \in bad : t <= u

\* lines 87-88: an instruction whose sum is empty adds no constraint; the loop
\* stops there if pulp refuses False
AddAssignmentConstraints ==
    /\ pc = "assignment"
    /\ \E iadd \in IaddFalse :
        LET false == {t \in DOMAIN self.n_i : AssignmentIsFalse(self, self.n_i[t])}
            stop  == IF iadd = "TypeError" THEN FirstOf(false, self.n_i) ELSE Len(self.n_i) + 1
        IN  /\ oasic_model' = [oasic_model EXCEPT !.assignment =
                                  {AssignmentConstraint(self, self.n_i[t]) :
                                      t \in (1..(stop - 1)) \ false}]
            /\ IF stop > Len(self.n_i)
               THEN pc' = "resource" /\ error' = error
               ELSE pc' = "raised" /\ error' = <<"TypeError", self.n_i[stop]>>
    /\ UNCHANGED <<scheduler, self, x, status, value, printed, grid, ret>>

\* lines 100-102
AddResourceConstraints ==
    /\ pc = "resource"
    /\ oasic_model' = [oasic_model EXCEPT !.resource = ResourceConstraints(self)]
    /\ pc' = "dependence"
    /\ UNCHANGED <<scheduler, self, x, status, value, printed, grid, error, ret>>

\* lines 119-121: the loop stops at the first edge whose max() raises
AddDependenceConstraints ==
    /\ pc = "dependence"
    /\ LET stop == FirstOf({e \in DOMAIN self.E_d_true : L_maxRaises(self, e)}, self.E_d_true)
       IN  /\ oasic_model' = [oasic_model EXCEPT !.dependence =
                                 DependenceConstraintsBefore(self, stop)]
           /\ IF stop > Len(self.E_d_true)
              THEN pc' = "solve" /\ error' = error
              ELSE pc' = "raised" /\ error' = <<"ValueError", self.E_d_true[stop][1]>>
    /\ UNCHANGED <<scheduler, self, x, status, value, printed, grid, ret>>

\* line 127: the returned status is dropped
Solve ==
    /\ pc = "solve"
    /\ LET lp   == LPVariables(oasic_model)
           sols == Solutions(self, oasic_model)
       IN  IF sols # {}
           THEN /\ status' = "Optimal"
                /\ \E ones \in sols : value' = [v \in lp |-> IF v \in ones THEN 1 ELSE 0]
           ELSE /\ status' = "Infeasible"
                /\ \E ones \in Leftovers(oasic_model) :
                      value' = [v \in lp |-> IF v \in ones THEN 1 ELSE 0]
    /\ pc' = "report"
    /\ UNCHANGED <<scheduler, self, x, oasic_model, printed, grid, error, ret>>

\* lines 128-161, and the return
Report ==
    /\ pc = "report"
    /\ printed' = Printed(self, x, value)
    /\ grid' = Occupied(self, x, value)
    /\ ret' = "None"
    /\ pc' = "done"
    /\ UNCHANGED <<scheduler, self, x, oasic_model, status, value, error>>

Next ==
    \/ CreateVariables
    \/ AddAssignmentConstraints
    \/ AddResourceConstraints
    \/ AddDependenceConstraints
    \/ Solve
    \/ Report

Spec == Init /\ [][Next]_vars

----------------------------------------------------------------------------
(* Vocabulary of the properties *)

Instructions == ToSet(self.n_i)
Units == ToSet(self.n_r_f)
Cycles == 1..self.M_steps

\* the solve has ended with a satisfying assignment in value
Solved == status = "Optimal"

\* the variables whose value is 1
Ones == {key \in DOMAIN value : value[key] = 1}

\* the (cycle, unit) pairs the assignment constraint of j ranges over
Slots(s, j) == {p \in s.N[j] \X ToSet(s.n_r_f) : Eligible(s, j, p[2])}

\* the variables of j at 1 among those its assignment constraint sums: the
\* (cycle, unit) the constraint assigns to j
Placed(j) == {key \in Ones : key[1] = j /\ <<key[2], key[3]>> \in Slots(self, j)}

\* the eligible in-window triples
EligibleInWindow(s) ==
    UNION {{<<j, p[1], p[2]>> : p \in {q \in Slots(s, j) : q[1] \in 1..s.M_steps}} :
             j \in ToSet(s.n_i)}

\* every constraint schedule() adds for s when it runs up to the solve
BuildModel(s) ==
    [assignment |-> {AssignmentConstraint(s, j) :
                        j \in {i \in ToSet(s.n_i) : ~AssignmentIsFalse(s, i)}},
     resource   |-> ResourceConstraints(s),
     dependence |-> DependenceConstraints(s)]

\* s with one window widened by one cycle inside [1,M]
Widenings(s) ==
    {[s EXCEPT !.N[p[1]] = @ \cup {p[2]}] :
        p \in {q \in ToSet(s.n_i) \X (1..s.M_steps) :
                 /\ q[2] \notin s.N[q[1]]
                 /\ (q[2] + 1 \in s.N[q[1]] \/ q[2] - 1 \in s.N[q[1]])}}

\* s with one capacity increased by one
Increases(s) == {[s EXCEPT !.R[k] = @ + 1] : k \in ToSet(s.n_r_f)}

\* one in-window (cycle, eligible unit) pair for each instruction
Schedules(s) ==
    {f \in [ToSet(s.n_i) -> UNION {Slots(s, j) : j \in ToSet(s.n_i)}] :
        \A j \in ToSet(s.n_i) : f[j] \in Slots(s, j)}

OnesOf(s, f) == {<<j, f[j][1], f[j][2]>> : j \in ToSet(s.n_i)}

\* n_j >= n_i + Q[k_i,i] on every edge
Ordered(s, f) ==
    \A e \in DOMAIN s.E_d_true :
        LET i == s.E_d_true[e][1]
            j == s.E_d_true[e][2]
        IN  f[j][1] >= f[i][1] + s.Q_k_i[<<f[i][2], i>>]

\* every instruction has an in-window cycle on an eligible unit
WellFormed(s) == \A j \in ToSet(s.n_i) : AssignmentSum(s, j) # {}

NoDuplicates(l) == \A t, u \in DOMAIN l : l[t] = l[u] => t = u

----------------------------------------------------------------------------
(* The properties *)

\* C1: once the variables are created, x holds exactly the triples (j,n,k)
\* with j an instruction, n in N(j) and in [1,M], and (j,k) in E_R.
C1_ExactVariableSpace ==
    pc # "variables" => x = EligibleInWindow(self)

\* C2: when every instruction has an in-window cycle on an eligible unit, in
\* every satisfying assignment every instruction has exactly one variable
\* equal to 1 among all the variables created for it.
C2_UniqueAssignment ==
    (Solved /\ WellFormed(self)) =>
        \A j \in Instructions : Cardinality({key \in Ones : key[1] = j}) = 1

C4_CapacityRespected ==
    Solved =>
        \A k \in Units : \A n \in Cycles :
            Cardinality({j \in Instructions : IsOne(value, <<j, n, k>>)}) <= self.R[k]

\* C4 happens: a unit that more instructions are eligible for than it has
\* instances is full in some cycle.
C4_Witness ==
    /\ Solved
    /\ \E k \in Units : \E n \in Cycles :
          /\ Cardinality({j \in Instructions : IsOne(value, <<j, n, k>>)}) = self.R[k]
          /\ Cardinality({j \in Instructions : Eligible(self, j, k)}) > self.R[k]
          /\ self.R[k] >= 1

\* C5: on an input where every instruction has an in-window cycle on an
\* eligible unit, a run whose solve found no satisfying assignment does not
\* end the way a feasible run ends, by returning None after the report.
C5_InfeasibilitySurfaced ==
    (pc = "done" /\ status = "Infeasible" /\ WellFormed(self)) => ret # "None"

\* C6: when every instruction has an in-window cycle on an eligible unit, a
\* satisfying assignment still satisfies the constraints generated after one
\* window is widened inside [1,M] or one capacity is increased.
C6_Monotone ==
    (Solved /\ pc = "report" /\ WellFormed(self)) =>
        \A s \in Widenings(self) \cup Increases(self) : SatisfiesAll(Ones, BuildModel(s))

\* C7: when some instruction has no in-window cycle on an eligible unit, no
\* schedule is produced: the run does not end with a solved model that
\* places the other instructions.
C7_EmptyWindowGivesNoSchedule ==
    ~WellFormed(self) =>
        ~(Solved /\ pc = "done" /\ \E j \in Instructions : Placed(j) # {})

\* C8: the example program on the example microarchitecture is feasible and
\* every satisfying assignment puts j at least Q[k_i,i] cycles after i, for
\* each of the three edges, k_i being the unit i is on.
C8_ScenarioA ==
    (scheduler = "exscheduler" /\ pc \in {"report", "done"}) =>
        /\ Solved
        /\ \A e \in DOMAIN self.E_d_true :
              LET i == self.E_d_true[e][1]
                  j == self.E_d_true[e][2]
              IN  \A a \in Ones : \A b \in Ones :
                     (a[1] = i /\ b[1] = j) => b[2] >= a[2] + self.Q_k_i[<<a[3], i>>]

\* C8 happens: the example run has printed i at 1, j at 3 and k at 4.
C8_Witness ==
    /\ scheduler = "exscheduler"
    /\ pc = "done"
    /\ Len(self.E_d_true) = 3
    /\ printed = << <<"i", 1, "ALU">>, <<"j", 3, "ALU">>, <<"k", 4, "MUL">> >>

C10_OrderingExact ==
    (/\ pc = "solve"
     /\ NoDuplicates(self.e_r)
     /\ \A j \in Instructions : self.N[j] \subseteq Cycles) =>
        /\ \A f \in Schedules(self) :
              (\A c \in oasic_model.dependence : Satisfies(OnesOf(self, f), c))
                 <=> Ordered(self, f)
        /\ \A c \in oasic_model.dependence :
              LET i == self.E_d_true[c.at[1]][1]
              IN  /\ c.at[3] <= c.at[2] + L_max(self, i)
                  /\ c.at[3] = c.at[2] + L_max(self, i) =>
                        /\ \A term \in c.terms : term[1][1] = 2
                        /\ \A f \in Schedules(self) : Satisfies(OnesOf(self, f), c)
        /\ \A f \in Schedules(self) : \A e \in DOMAIN self.E_d_true :
              LET i == self.E_d_true[e][1]
                  j == self.E_d_true[e][2]
              IN  f[j][1] > f[i][1] + L_max(self, i) =>
                     f[j][1] >= f[i][1] + self.Q_k_i[<<f[i][2], i>>]

\* C10 happens: all constraints are built, one of them is for
\* n_j = n_i + L_max(i), and the dependence constraints accept one schedule
\* and reject another.
C10_Witness ==
    /\ pc = "solve"
    /\ \E c \in oasic_model.dependence :
          c.at[3] = c.at[2] + L_max(self, self.E_d_true[c.at[1]][1])
    /\ \E f \in Schedules(self) : Ordered(self, f)
    /\ \E f \in Schedules(self) :
          \E c \in oasic_model.dependence : ~Satisfies(OnesOf(self, f), c)

====
